---- MODULE Spec2Model ----
(***************************************************************************)
(* Announcement endpoints of the High School Management System API         *)
(* (src/backend/routers/announcements.py): list, create, update, delete    *)
(* over one announcements collection, gated by a teacher existence check.  *)
(*                                                                         *)
(* Strings are sequences of one-character strings.  Optional values are    *)
(* records: NoneV, or Some(v).  A client step puts a request in flight;    *)
(* the route's step serves it atomically (request validation, the          *)
(* handler's body and the store calls it makes) and puts the response in   *)
(* flight; a last step delivers it.                                        *)
(***************************************************************************)
EXTENDS Integers, Sequences, FiniteSets, TLC

VARIABLES
    store,     \* announcements_collection: ObjectId -> document
    nextId,    \* number of ObjectIds the store has assigned so far
    today,     \* date.today()
    req,       \* the request in flight, NoReq when there is none
    resp,      \* the response in flight, NoResp when there is none
    deleted    \* history: the ObjectIds delete_one has removed

vars == <<store, nextId, today, req, resp, deleted>>

(***************************** bounds **************************************)

\* ObjectIds the store may assign in one behaviour
MaxDocs == 2

(************************* program constants *******************************)

TitleMinLen == 1
TitleMaxLen == 120
MessageMinLen == 1
MessageMaxLen == 800

(***************************** Optional[T] *********************************)

NoneV == [some |-> FALSE]
Some(v) == [some |-> TRUE, val |-> v]

(************************* requests and responses **************************)

NoReq == [op |-> "none"]
NoResp == [op |-> "none", echo |-> NoneV, status |-> 0, detail |-> "", body |-> NoneV]

\* raise HTTPException(status_code, detail) / return body
Error(status, detail) == [status |-> status, detail |-> detail, body |-> NoneV]
Return(body) == [status |-> 200, detail |-> "", body |-> body]

\* the response to a request: what the handler returned or raised, with the
\* route that served it and the request's flags or identifier
Respond(op, echo, r) ==
    [op |-> op, echo |-> echo, status |-> r.status, detail |-> r.detail, body |-> r.body]

(******************************* strings ***********************************)

Min(S) == CHOOSE x \in S : \A y \in S : x <= y
Max(S) == CHOOSE x \in S : \A y \in S : x >= y

Rep(c, n) == [i \in 1..n |-> c]

\* str.strip(): the characters str.isspace() holds of, among those used here
Whitespace == {" ", "\t", "\n"}

strip(s) ==
    LET keep == {i \in 1..Len(s) : s[i] \notin Whitespace}
    IN  IF keep = {} THEN <<>> ELSE SubSeq(s, Min(keep), Max(keep))

Digits == <<"0", "1", "2", "3", "4", "5", "6", "7", "8", "9">>
IsDigit(c) == \E n \in 0..9 : Digits[n + 1] = c
DigitVal(c) == CHOOSE n \in 0..9 : Digits[n + 1] = c

\* n as w decimal digits, zero-padded ("%04d", "%02d")
RECURSIVE Pad(_, _)
Pad(n, w) == IF w = 0 THEN <<>> ELSE Pad(n \div 10, w - 1) \o <<Digits[(n % 10) + 1]>>

Number(s) ==
    LET RECURSIVE Val(_)
        Val(k) == IF k = 0 THEN 0 ELSE 10 * Val(k - 1) + DigitVal(s[k])
    IN  Val(Len(s))

\* code points of the characters of an ISO date
CodePoint(c) == IF c = "-" THEN 45 ELSE 48 + DigitVal(c)

\* the store's order on strings (binary comparison)
StrLeq(a, b) ==
    LET n == IF Len(a) <= Len(b) THEN Len(a) ELSE Len(b)
        diff == {i \in 1..n : a[i] # b[i]}
    IN  IF diff = {}
        THEN Len(a) <= Len(b)
        ELSE CodePoint(a[Min(diff)]) < CodePoint(b[Min(diff)])

(******************************** dates ************************************)

Date(y, m, d) == [year |-> y, month |-> m, day |-> d]

\* date.__lt__ / date.__le__
DateLt(a, b) ==
    \/ a.year < b.year
    \/ a.year = b.year /\ a.month < b.month
    \/ a.year = b.year /\ a.month = b.month /\ a.day < b.day

DateLeq(a, b) == a = b \/ DateLt(a, b)

IsLeap(y) == y % 4 = 0 /\ (y % 100 # 0 \/ y % 400 = 0)

DaysInMonth(y, m) ==
    IF m = 2 THEN (IF IsLeap(y) THEN 29 ELSE 28)
    ELSE IF m \in {4, 6, 9, 11} THEN 30 ELSE 31

\* (mutant) isoformat without the zero padding of month and day
isoformat_unpadded(d) ==
    Pad(d.year, 4) \o <<"-">> \o Pad(d.month, IF d.month < 10 THEN 1 ELSE 2)
                   \o <<"-">> \o Pad(d.day, IF d.day < 10 THEN 1 ELSE 2)

\* date.isoformat(): YYYY-MM-DD
isoformat(d) ==
    Pad(d.year, 4) \o <<"-">> \o Pad(d.month, 2) \o <<"-">> \o Pad(d.day, 2)

\* date.fromisoformat() inside _parse_optional_date: None for an absent or
\* empty value and for a ValueError
_parse_optional_date(value) ==
    IF ~value.some \/ value.val = <<>> THEN NoneV
    ELSE LET s == value.val
         IN  IF /\ Len(s) = 10
                /\ s[5] = "-" /\ s[8] = "-"
                /\ \A i \in {1, 2, 3, 4, 6, 7, 9, 10} : IsDigit(s[i])
             THEN LET y == Number(SubSeq(s, 1, 4))
                      m == Number(SubSeq(s, 6, 7))
                      d == Number(SubSeq(s, 9, 10))
                  IN  IF y >= 1 /\ m \in 1..12 /\ d >= 1 /\ d <= DaysInMonth(y, m)
                      THEN Some(Date(y, m, d))
                      ELSE NoneV
             ELSE NoneV

(****************************** ObjectId ***********************************)

HexLower == {"0", "1", "2", "3", "4", "5", "6", "7", "8", "9",
             "a", "b", "c", "d", "e", "f"}
HexUpper == {"A", "B", "C", "D", "E", "F"}

Lower(c) ==
    CASE c = "A" -> "a" [] c = "B" -> "b" [] c = "C" -> "c"
      [] c = "D" -> "d" [] c = "E" -> "e" [] c = "F" -> "f"
      [] OTHER -> c

\* ObjectId(announcement_id): NoneV stands for the exception bson raises for
\* anything but 24 hexadecimal characters
ObjectId(s) ==
    IF Len(s) = 24 /\ \A i \in 1..Len(s) : s[i] \in HexLower \cup HexUpper
    THEN Some([i \in 1..24 |-> Lower(s[i])])
    ELSE NoneV

\* the n-th ObjectId insert_one generates: fresh, never handed out twice
NewObjectId(n) == Pad(n, 24)

(************************ Teacher Directory ********************************)

teachers_collection == {<<"m", "r">>}


\* (mutant) _require_teacher without the directory lookup
_require_teacher_any(username) ==
    IF ~username.some \/ username.val = <<>>
    THEN Error(401, "Authentication required for this action")
    ELSE Return(username.val)

_require_teacher(username) ==
    IF ~username.some \/ username.val = <<>>
    THEN Error(401, "Authentication required for this action")
    ELSE IF username.val \notin teachers_collection
         THEN Error(401, "Invalid teacher credentials")
         ELSE Return(username.val)

(*************************** AnnouncementPayload ***************************)

TitleOk(p) == Len(p.title) >= TitleMinLen /\ Len(p.title) <= TitleMaxLen

MessageOk(p) == Len(p.message) >= MessageMinLen /\ Len(p.message) <= MessageMaxLen

\* (mutant) the validator with the comparison turned round
validate_end_date_swapped(p) ==
    ~(p.start_date.some /\ DateLt(p.start_date.val, p.end_date))

\* the validator: raises when start is set and end < start
validate_end_date(p) == ~(p.start_date.some /\ DateLt(p.end_date, p.start_date.val))

\* the request body parses into an AnnouncementPayload (otherwise the
\* framework answers 422 and the handler's body never runs)
ValidPayload(p) == TitleOk(p) /\ MessageOk(p) /\ validate_end_date(p)

_serialize_payload(payload) ==
    [title      |-> strip(payload.title),
     message    |-> strip(payload.message),
     start_date |-> IF payload.start_date.some
                    THEN Some(isoformat(payload.start_date.val))
                    ELSE NoneV,
     end_date   |-> isoformat(payload.end_date)]

\* doc.get(key, default)
Get(doc, key, default) == IF key \in DOMAIN doc THEN doc[key] ELSE default

_doc_to_response(oid, doc, now) ==
    LET end == _parse_optional_date(
                   IF "end_date" \in DOMAIN doc THEN Some(doc.end_date) ELSE NoneV)
    IN  [title      |-> Get(doc, "title", <<>>),
         message    |-> Get(doc, "message", <<>>),
         start_date |-> _parse_optional_date(Get(doc, "start_date", NoneV)),
         end_date   |-> IF end.some THEN end.val ELSE now,
         id         |-> oid]

(****************************** the store **********************************)

\* (mutant) a $set that leaves out the fields whose value is None
SetFields_skip_none(doc, fields) ==
    [k \in DOMAIN doc \cup DOMAIN fields |->
        IF k \in DOMAIN fields /\ ~(k = "start_date" /\ ~fields[k].some)
        THEN fields[k] ELSE doc[k]]

\* {"$set": fields}
SetFields(doc, fields) ==
    [k \in DOMAIN doc \cup DOMAIN fields |->
        IF k \in DOMAIN fields THEN fields[k] ELSE doc[k]]

InsertOne(coll, oid, doc) ==
    [o \in DOMAIN coll \cup {oid} |-> IF o = oid THEN doc ELSE coll[o]]

\* (mutant) a delete whose filter matches every document
DeleteOne_all(coll, oid) == [o \in {} |-> coll[o]]

DeleteOne(coll, oid) == [o \in DOMAIN coll \ {oid} |-> coll[o]]

\* (mutant) the filter without the start_date clause
Matches_no_start(doc, include_expired, include_future, today_iso) ==
    \/ include_expired
    \/ /\ "end_date" \in DOMAIN doc
       /\ StrLeq(today_iso, doc.end_date)

\* (mutant) the filter with the start_date clause beside the end_date clause
\* instead of under it
Matches_flat(doc, include_expired, include_future, today_iso) ==
    /\ \/ include_expired
       \/ "end_date" \in DOMAIN doc /\ StrLeq(today_iso, doc.end_date)
    /\ \/ include_future
       \/ "start_date" \notin DOMAIN doc
       \/ ~doc.start_date.some
       \/ StrLeq(doc.start_date.val, today_iso)

\* (mutant) the filter with the start_date clause whatever include_future is
Matches_no_future(doc, include_expired, include_future, today_iso) ==
    \/ include_expired
    \/ /\ "end_date" \in DOMAIN doc
       /\ StrLeq(today_iso, doc.end_date)
       /\ \/ "start_date" \notin DOMAIN doc
          \/ ~doc.start_date.some
          \/ StrLeq(doc.start_date.val, today_iso)

\* the filter list_announcements builds
Matches(doc, include_expired, include_future, today_iso) ==
    \/ include_expired
    \/ /\ "end_date" \in DOMAIN doc
       /\ StrLeq(today_iso, doc.end_date)                   \* end_date $gte today
       /\ \/ include_future
          \/ "start_date" \notin DOMAIN doc                 \* $exists: False
          \/ ~doc.start_date.some                           \* start_date: None
          \/ StrLeq(doc.start_date.val, today_iso)          \* start_date $lte today

Find(coll, include_expired, include_future, today_iso) ==
    {o \in DOMAIN coll : Matches(coll[o], include_expired, include_future, today_iso)}

\* .sort("end_date", 1): any order of the matching documents that ascends
\* by end_date; the order among equal end_dates is the store's choice
\* (mutant) sort("end_date", -1)
Sorted_descending(coll, seq) ==
    \A i \in 1..(Len(seq) - 1) : StrLeq(coll[seq[i + 1]].end_date, coll[seq[i]].end_date)

Sorted(coll, seq) ==
    \A i \in 1..(Len(seq) - 1) : StrLeq(coll[seq[i]].end_date, coll[seq[i + 1]].end_date)

Cursors(coll, ids) ==
    {seq \in [1..Cardinality(ids) -> ids] :
        /\ \A i, j \in 1..Cardinality(ids) : i # j => seq[i] # seq[j]
        /\ Sorted(coll, seq)}

(******************************* inputs ************************************)

D1 == Date(2024, 12, 31)
D2 == Date(2025, 1, 1)
D3 == Date(2025, 2, 1)

\* the days the clock can show, and the dates a payload can carry
Days == {D1, D2, D3}
Dates == {D1, D3}
OptDates == {NoneV} \cup {Some(d) : d \in Dates}

T_blank == <<" ">>
T_exam == <<" ", "E", "x", "a", "m", "\n">>
T_long == Rep("x", TitleMaxLen + 1)
Titles == {T_blank, T_exam, T_long}

M_empty == <<>>
M_midterm == <<"M", "i", "d", "t", "e", "r", "m", " ", "F", "r", "i", "d", "a", "y">>
M_moved == <<"\t", "M", "o", "v", "e", "d", " ">>
M_long == Rep("y", MessageMaxLen + 1)
Messages == {M_empty, M_midterm, M_moved, M_long}

\* payloads varying the title, the message, and the dates
Payloads ==
    {[title |-> t, message |-> M_midterm, start_date |-> NoneV, end_date |-> D3] :
        t \in Titles}
    \cup
    {[title |-> T_exam, message |-> m, start_date |-> NoneV, end_date |-> D3] :
        m \in Messages}
    \cup
    {[title |-> T_exam, message |-> M_midterm, start_date |-> s, end_date |-> e] :
        s \in OptDates, e \in Dates}

Usernames == {NoneV, Some(<<>>), Some(<<"m", "r">>), Some(<<"g", "h">>)}

\* identifiers a client may send: every ObjectId the store can assign, one it
\* never assigns, and a string that is no ObjectId
Identifiers ==
    {NewObjectId(n) : n \in 1..MaxDocs} \cup {Rep("f", 24), Rep("0", 23)}

(******************************* actions ***********************************)

Init ==
    /\ store = <<>>
    /\ nextId = 0
    /\ today \in Days
    /\ req = NoReq
    /\ resp = NoResp
    /\ deleted = {}

\* midnight passes
NextDay ==
    /\ \E d \in Days : DateLt(today, d) /\ today' = d
    /\ UNCHANGED <<store, nextId, req, resp, deleted>>

\* a client sends a request, once the response to the one before reached it
Send(r) ==
    /\ req = NoReq
    /\ resp = NoResp
    /\ req' = r
    /\ UNCHANGED <<store, nextId, today, resp, deleted>>

\* the response reaches the client
Receive ==
    /\ resp # NoResp
    /\ resp' = NoResp
    /\ UNCHANGED <<store, nextId, today, req, deleted>>

GetAnnouncements ==
    \E ie \in BOOLEAN, ifu \in BOOLEAN :
        Send([op |-> "list", include_expired |-> ie, include_future |-> ifu])

PostAnnouncement ==
    \E p \in Payloads, u \in Usernames :
        Send([op |-> "create", payload |-> p, teacher_username |-> u])

PutAnnouncement ==
    \E id \in Identifiers, p \in Payloads, u \in Usernames :
        Send([op |-> "update", payload |-> p, teacher_username |-> u,
              announcement_id |-> id])

DeleteAnnouncement ==
    \E id \in Identifiers, u \in Usernames :
        Send([op |-> "delete", teacher_username |-> u, announcement_id |-> id])

list_announcements ==
    /\ req.op = "list"
    /\ LET today_iso == isoformat(today)
           found == Find(store, req.include_expired, req.include_future, today_iso)
           echo == [include_expired |-> req.include_expired,
                    include_future |-> req.include_future]
       IN  \E cursor \in Cursors(store, found) :
              resp' = Respond("list", echo,
                          Return([i \in 1..Len(cursor) |->
                                    _doc_to_response(cursor[i], store[cursor[i]], today)]))
    /\ req' = NoReq
    /\ UNCHANGED <<store, nextId, today, deleted>>

create_announcement ==
    /\ req.op = "create"
    /\ LET payload == req.payload
           auth == _require_teacher(req.teacher_username)
           serialized == _serialize_payload(payload)
           inserted_id == NewObjectId(nextId + 1)
           after == InsertOne(store, inserted_id, serialized)
       IN  IF ~ValidPayload(payload)
           THEN /\ resp' = Respond("create", NoneV, Error(422, "validation error"))
                /\ UNCHANGED <<store, nextId>>
           ELSE IF auth.status # 200
           THEN /\ resp' = Respond("create", NoneV, auth)
                /\ UNCHANGED <<store, nextId>>
           ELSE /\ nextId < MaxDocs
                /\ store' = after
                /\ nextId' = nextId + 1
                /\ resp' = Respond("create", NoneV,
                               IF inserted_id \notin DOMAIN after
                               THEN Error(500, "Failed to create announcement")
                               ELSE Return(_doc_to_response(
                                               inserted_id, after[inserted_id], today)))
    /\ req' = NoReq
    /\ UNCHANGED <<today, deleted>>

update_announcement ==
    /\ req.op = "update"
    /\ LET payload == req.payload
           auth == _require_teacher(req.teacher_username)
           object_id == ObjectId(req.announcement_id)
           serialized == _serialize_payload(payload)
           echo == [id |-> req.announcement_id]
       IN  IF ~ValidPayload(payload)
           THEN /\ resp' = Respond("update", echo, Error(422, "validation error"))
                /\ UNCHANGED store
           ELSE IF auth.status # 200
           THEN /\ resp' = Respond("update", echo, auth)
                /\ UNCHANGED store
           ELSE IF ~object_id.some
           THEN /\ resp' = Respond("update", echo, Error(404, "Announcement not found"))
                /\ UNCHANGED store
           ELSE IF object_id.val \notin DOMAIN store
           THEN /\ resp' = Respond("update", echo, Error(404, "Announcement not found"))
                /\ UNCHANGED store
           ELSE /\ store' = [store EXCEPT
                               ![object_id.val] = SetFields(@, serialized)]
                /\ resp' = Respond("update", echo,
                               Return(_doc_to_response(
                                          object_id.val, store'[object_id.val], today)))
    /\ req' = NoReq
    /\ UNCHANGED <<nextId, today, deleted>>

delete_announcement ==
    /\ req.op = "delete"
    /\ LET auth == _require_teacher(req.teacher_username)
           object_id == ObjectId(req.announcement_id)
           echo == [id |-> req.announcement_id]
       IN  IF auth.status # 200
           THEN /\ resp' = Respond("delete", echo, auth)
                /\ UNCHANGED <<store, deleted>>
           ELSE IF ~object_id.some
           THEN /\ resp' = Respond("delete", echo, Error(404, "Announcement not found"))
                /\ UNCHANGED <<store, deleted>>
           ELSE IF object_id.val \notin DOMAIN store
           THEN /\ resp' = Respond("delete", echo, Error(404, "Announcement not found"))
                /\ UNCHANGED <<store, deleted>>
           ELSE /\ store' = DeleteOne(store, object_id.val)
                /\ deleted' = deleted \cup {object_id.val}
                /\ resp' = Respond("delete", echo,
                               Return([message |-> "Announcement deleted"]))
    /\ req' = NoReq
    /\ UNCHANGED <<nextId, today>>

Next ==
    \/ GetAnnouncements
    \/ PostAnnouncement
    \/ PutAnnouncement
    \/ DeleteAnnouncement
    \/ list_announcements
    \/ create_announcement
    \/ update_announcement
    \/ delete_announcement
    \/ Receive
    \/ NextDay

Spec == Init /\ [][Next]_vars

(***************************************************************************)
(* The claims.  A step serves a request when it takes it out of flight.    *)
(***************************************************************************)

Serves(ops) == req.op \in ops /\ req' = NoReq

IsTeacher(u) == u.some /\ u.val \in teachers_collection

\* the ObjectId a request names is stored
NamesStored(r) ==
    ObjectId(r.announcement_id).some /\ ObjectId(r.announcement_id).val \in DOMAIN store

StoredStart(doc) == _parse_optional_date(doc.start_date)
StoredEnd(doc) == _parse_optional_date(Some(doc.end_date))

Ids(body) == {body[i].id : i \in 1..Len(body)}

\* t is s without its leading and trailing whitespace
IsTrimOf(t, s) ==
    /\ \E i \in 0..Len(s) : \E j \in i..Len(s) :
          /\ t = SubSeq(s, i + 1, j)
          /\ \A k \in 1..i : s[k] \in Whitespace
          /\ \A k \in (j + 1)..Len(s) : s[k] \in Whitespace
    /\ t # <<>> => t[1] \notin Whitespace /\ t[Len(t)] \notin Whitespace

\* C1 as stated: create, update and delete without an existing teacher fail
\* with 401 whatever the payload and the identifier, and change nothing.
C1_Original ==
    [][(Serves({"create", "update", "delete"}) /\ ~IsTeacher(req.teacher_username))
          => (resp'.status = 401 /\ store' = store)]_vars

\* C1 amended: without an existing teacher, create, update and delete change
\* nothing and fail: with 422 when the payload of a create or update is
\* invalid, with 401 otherwise.
C1_Unauthorized ==
    [][(Serves({"create", "update", "delete"}) /\ ~IsTeacher(req.teacher_username))
          => /\ store' = store
             /\ resp'.status = IF req.op # "delete" /\ ~ValidPayload(req.payload)
                               THEN 422 ELSE 401]_vars

C1_Witness ==
    /\ resp.op = "update" /\ resp.status = 401
    /\ resp.echo.id \in DOMAIN store

\* C2: every stored announcement has no start_date or start_date <= end_date;
\* a create or update whose start_date is after its end_date fails with 422
\* and stores nothing.
C2_StartNotAfterEnd ==
    [][/\ store' # store
             => \A o \in DOMAIN store' :
                   StoredStart(store'[o]).some
                      => DateLeq(StoredStart(store'[o]).val, StoredEnd(store'[o]).val)
       /\ (/\ Serves({"create", "update"})
           /\ req.payload.start_date.some
           /\ DateLt(req.payload.end_date, req.payload.start_date.val))
             => (resp'.status = 422 /\ store' = store)]_vars

C2_Witness ==
    /\ resp.op \in {"create", "update"} /\ resp.status = 422
    /\ \E o \in DOMAIN store :
          /\ store[o].start_date.some
          /\ store[o].start_date.val # store[o].end_date

\* C3 as stated: every stored announcement has a title of 1 to 120 characters
\* and a message of 1 to 800 characters.
C3_StoredLengths ==
    \A o \in DOMAIN store :
        /\ Len(store[o].title) >= 1 /\ Len(store[o].title) <= 120
        /\ Len(store[o].message) >= 1 /\ Len(store[o].message) <= 800

\* C4: a valid payload from an existing teacher is created: one new
\* announcement under a fresh non-empty id, the others untouched, and the
\* response carries that id and the payload's dates.
C4_CreateSucceeds ==
    [][(/\ Serves({"create"})
        /\ ValidPayload(req.payload)
        /\ IsTeacher(req.teacher_username))
          => /\ resp'.status = 200
             /\ resp'.body.id # <<>>
             /\ resp'.body.id \notin DOMAIN store \cup deleted
             /\ DOMAIN store' = DOMAIN store \cup {resp'.body.id}
             /\ \A o \in DOMAIN store : store'[o] = store[o]
             /\ resp'.body.start_date = req.payload.start_date
             /\ resp'.body.end_date = req.payload.end_date]_vars

C4_Witness ==
    /\ resp.op = "create" /\ resp.status = 200
    /\ resp.body.start_date = Some(D1) /\ resp.body.end_date = D3
    /\ Cardinality(DOMAIN store) = 2

\* C5: a list with default flags returns no announcement whose end_date is
\* before today and none whose start_date is after today.
C5_DefaultList ==
    [][(Serves({"list"}) /\ ~req.include_expired /\ ~req.include_future)
          => \A i \in 1..Len(resp'.body) :
                /\ ~DateLt(resp'.body[i].end_date, today)
                /\ resp'.body[i].start_date.some
                      => ~DateLt(today, resp'.body[i].start_date.val)]_vars

C5_Witness ==
    /\ resp.op = "list" /\ ~resp.echo.include_expired /\ ~resp.echo.include_future
    /\ Len(resp.body) = 1
    /\ \E o \in DOMAIN store : StoredStart(store[o]).some
                                  /\ DateLt(today, StoredStart(store[o]).val)

\* C6: a list with include_expired returns every stored announcement once,
\* whatever include_future is: a superset of the default list.
C6_IncludeExpired ==
    [][(Serves({"list"}) /\ req.include_expired)
          => /\ Ids(resp'.body) = DOMAIN store
             /\ Len(resp'.body) = Cardinality(DOMAIN store)
             /\ Find(store, FALSE, FALSE, isoformat(today)) \subseteq Ids(resp'.body)]_vars

C6_Witness ==
    /\ resp.op = "list" /\ resp.echo.include_expired /\ ~resp.echo.include_future
    /\ today = D2
    /\ \E i \in 1..Len(resp.body) : DateLt(resp.body[i].end_date, today)
    /\ \E i \in 1..Len(resp.body) :
          /\ resp.body[i].start_date.some
          /\ DateLt(today, resp.body[i].start_date.val)

\* C7: a list with include_future and without include_expired returns
\* exactly the stored announcements whose end_date is today or later.
C7_IncludeFuture ==
    [][(Serves({"list"}) /\ ~req.include_expired /\ req.include_future)
          => /\ Ids(resp'.body) =
                   {o \in DOMAIN store : DateLeq(today, StoredEnd(store[o]).val)}
             /\ Len(resp'.body) = Cardinality(Ids(resp'.body))]_vars

C7_Witness ==
    /\ resp.op = "list" /\ ~resp.echo.include_expired /\ resp.echo.include_future
    /\ today = D2
    /\ Len(resp.body) = 1
    /\ resp.body[1].start_date.some /\ DateLt(today, resp.body[1].start_date.val)
    /\ \E o \in DOMAIN store : DateLt(StoredEnd(store[o]).val, today)

\* what C8 says of everything but the stored title and message: the dates are
\* the payload's, the id and the other announcements stay, the response is the
\* document after the update
UpdateKeepsRest ==
    LET id == ObjectId(req.announcement_id).val
    IN  /\ resp'.status = 200
        /\ DOMAIN store' = DOMAIN store
        /\ \A o \in DOMAIN store \ {id} : store'[o] = store[o]
        /\ StoredStart(store'[id]) = req.payload.start_date
        /\ StoredEnd(store'[id]) = Some(req.payload.end_date)
        /\ DOMAIN store'[id] = {"title", "message", "start_date", "end_date"}
        /\ resp'.body.id = id
        /\ resp'.body.title = store'[id].title
        /\ resp'.body.message = store'[id].message
        /\ resp'.body.start_date = req.payload.start_date
        /\ resp'.body.end_date = req.payload.end_date

ServesUpdateOfStored ==
    /\ Serves({"update"})
    /\ ValidPayload(req.payload)
    /\ IsTeacher(req.teacher_username)
    /\ NamesStored(req)

\* a list shows each announcement under its stored title
ListShowsStoredTitles ==
    Serves({"list"})
       => \A i \in 1..Len(resp'.body) :
             resp'.body[i].title = store[resp'.body[i].id].title

\* C8 as stated: the update stores the payload's title, message and dates.
C8_Original ==
    [][/\ ServesUpdateOfStored
          => /\ UpdateKeepsRest
             /\ store'[ObjectId(req.announcement_id).val].title = req.payload.title
             /\ store'[ObjectId(req.announcement_id).val].message = req.payload.message
       /\ ListShowsStoredTitles]_vars

\* C8 amended: the update stores the payload's title and message trimmed of
\* leading and trailing whitespace, and the payload's dates (no start_date
\* clears a stored one); the rest as stated.
C8_FullReplace ==
    [][/\ ServesUpdateOfStored
          => /\ UpdateKeepsRest
             /\ IsTrimOf(store'[ObjectId(req.announcement_id).val].title,
                         req.payload.title)
             /\ IsTrimOf(store'[ObjectId(req.announcement_id).val].message,
                         req.payload.message)
       /\ ListShowsStoredTitles]_vars

C8_Witness ==
    /\ resp.op = "update" /\ resp.status = 200
    /\ resp.body.message = strip(M_moved)
    /\ ~resp.body.start_date.some
    /\ \E o \in DOMAIN store : store[o].start_date.some /\ store[o].message # strip(M_moved)

\* C9: a delete of a stored id removes that announcement and no other; a
\* delete of any other id returns 404 and changes nothing; once an id is
\* deleted it is never stored again, a delete or update of it returns 404 and
\* no list returns it.
C9_Delete ==
    [][/\ (Serves({"delete"}) /\ IsTeacher(req.teacher_username) /\ NamesStored(req))
          => /\ resp'.status = 200
             /\ DOMAIN store' = DOMAIN store \ {ObjectId(req.announcement_id).val}
             /\ Cardinality(DOMAIN store') = Cardinality(DOMAIN store) - 1
             /\ \A o \in DOMAIN store' : store'[o] = store[o]
       /\ (Serves({"delete"}) /\ IsTeacher(req.teacher_username) /\ ~NamesStored(req))
          => (resp'.status = 404 /\ store' = store)
       /\ (/\ Serves({"delete", "update"})
           /\ IsTeacher(req.teacher_username)
           /\ req.op = "update" => ValidPayload(req.payload)
           /\ req.announcement_id \in deleted)
          => (resp'.status = 404 /\ store' = store)
       /\ Serves({"list"}) => Ids(resp'.body) \cap deleted = {}
       /\ deleted \subseteq deleted'
       /\ deleted' \cap DOMAIN store' = {}]_vars

C9_Witness ==
    /\ resp.op \in {"update", "delete"} /\ resp.status = 404
    /\ resp.echo.id \in deleted
    /\ store # <<>>

\* C10: whatever the flags, a list is in ascending order of end_date.
C10_Ascending ==
    [][Serves({"list"})
          => \A i \in 1..(Len(resp'.body) - 1) :
                DateLeq(resp'.body[i].end_date, resp'.body[i + 1].end_date)]_vars

C10_Witness ==
    /\ resp.op = "list"
    /\ Len(resp.body) = 2
    /\ DateLt(resp.body[1].end_date, resp.body[2].end_date)

====
